---------------------------- MODULE Spec2Model ----------------------------
(***************************************************************************)
(* A model of collie_recs' two staged recommendation models:               *)
(*   - ColdStartModel   (model/cold_start_matrix_factorization.py)         *)
(*   - HybridPretrainedModel                                               *)
(*                      (model/hybrid_pretrained_matrix_factorization.py)  *)
(*                                                                         *)
(* Python lists and 1-d tensors are TLA+ sequences: Python index i is TLA+ *)
(* index i + 1.  Ids stored IN a tensor (bucket ids) keep Python's 0-based *)
(* values.  An embedding table is the sequence of its rows, a row is the   *)
(* sequence of its columns.                                                *)
(***************************************************************************)
EXTENDS Integers, Sequences, FiniteSets, TLC

(***************************************************************************)
(* Bounds of the model.                                                    *)
(***************************************************************************)
\* ColdStartModel.__init__ is called with item_buckets lists of up to
\* MaxListLen entries, each in 0..MaxBucketId, on datasets of up to
\* MaxDataItems items and MaxDataUsers users
MaxListLen == 3
MaxBucketId == 3
MaxDataItems == 3
MaxDataUsers == 3
\* a constructed model has up to MaxItems items and MaxUsers users
MaxItems == 3
MaxUsers == 1
\* weights take the values 0..MaxVal
MaxVal == 1

\* items of the dataset the trained models and the hybrid models are built on
NumHybridItems == 2
\* calls made on hybrid models in one behaviour (forward calls not counted)
MaxHybridOps == 4
\* calls made in one behaviour that saves and loads models
MaxRoundTripOps == 5
\* rows of the tables _copy_weights is tried on
MaxCopyRows == 2

\* the width of a ZeroEmbedding bias table
BiasDim == 1
\* the width of the latent tables (hparams.embedding_dim) used in the model
EmbeddingDim == 1

Vals == 0..MaxVal

VARIABLES
    \* ---- ColdStartModel.__init__, called once on an input
    ctor,
    \* ---- _copy_weights, called on tables and an assignment
    copy,
    \* ---- a constructed ColdStartModel
    stage,                      \* self.hparams.stage
    item_buckets,               \* self.hparams.item_buckets
    num_users,                  \* self.hparams.num_users
    item_bucket_biases,
    item_bucket_embeddings,
    user_biases,
    user_embeddings,
    item_biases,
    item_embeddings,
    last,                       \* the last call made on the model and how it ended
    fitted,                     \* the stages trainer.fit(model) has run in
    \* ---- trained models, HybridPretrainedModels and the file system
    heap,                       \* the embedding tables, by object identity
    hyb,                        \* the hybrid models
    disk,                       \* the directory save_model and load work on
    saved,                      \* the model the last successful save_model was called on
    hlast,                      \* the last call made on a hybrid model and how it ended
    hops                        \* calls that may still be made on hybrid models

coldVars == <<stage, item_buckets, num_users, item_bucket_biases,
              item_bucket_embeddings, user_biases, user_embeddings,
              item_biases, item_embeddings, last, fitted, copy>>

hybVars == <<heap, hyb, disk, saved, hlast, hops>>

vars == <<ctor, copy, stage, item_buckets, num_users, item_bucket_biases,
          item_bucket_embeddings, user_biases, user_embeddings,
          item_biases, item_embeddings, last, fitted,
          heap, hyb, disk, saved, hlast, hops>>

(***************************************************************************)
(* Helpers on sequences of integers.                                       *)
(***************************************************************************)
RECURSIVE SeqsUpTo(_, _)
SeqsUpTo(S, n) ==
    IF n = 0 THEN {<<>>}
    ELSE LET shorter == SeqsUpTo(S, n - 1)
         IN  shorter \cup {Append(s, x) : s \in {t \in shorter : Len(t) = n - 1}, x \in S}

Range(s) == {s[i] : i \in DOMAIN s}

\* Python's min() / Tensor.max() on a non-empty 1-d tensor
Min(s) == CHOOSE x \in Range(s) : \A y \in Range(s) : x <= y
Max(s) == CHOOSE x \in Range(s) : \A y \in Range(s) : x >= y

(***************************************************************************)
(* ColdStartModel.__init__ (lines 167-189).                                *)
(*                                                                         *)
(* item_buckets = torch.tensor(item_buckets) is a 1-d tensor.  Iterating   *)
(* it (min(...), set(...)) yields one 0-d tensor OBJECT per position.      *)
(* A member of a Python set is modelled as <<kind, identity, value>>:      *)
(* torch.Tensor hashes by identity (Tensor.__hash__ is id(self)), so two   *)
(* 0-d tensors are one member only when they are the same object, and a    *)
(* tensor is never the member an int is; an int hashes by its value.       *)
(***************************************************************************)
\* set(item_buckets), line 180
TensorSet(t) == {<<"tensor", i, t[i]>> : i \in DOMAIN t}

\* set(range(n)), line 180
RangeSet(n) == {<<"int", 0, k>> : k \in 0..(n - 1)}

\* line 173: len(item_buckets) != train.num_items
LengthMismatch(t, n_items) == Len(t) # n_items

\* line 178: min(item_buckets) != 0, for a non-empty tensor
MinNotZero(t) == Min(t) # 0

\* the same check reading the members by value and accepting any subset
CoverageMismatchBySubset(t, n_users) == ~(Range(t) \subseteq 0..(n_users - 1))

\* line 180: set(item_buckets) != set(range(train.num_users))
CoverageMismatch(t, n_users) == TensorSet(t) # RangeSet(n_users)

\* The outcome of __init__ on (item_buckets, train.num_items, train.num_users):
\* the exception raised and the line raising it, or the num_item_buckets passed
\* on to MultiStagePipeline.__init__ (line 185).
ColdStartInit(t, n_items, n_users) ==
    IF LengthMismatch(t, n_items)
        THEN [raised |-> "ValueError", line |-> 174, num_item_buckets |-> -1]
    ELSE IF t = <<>>
        \* min() of an empty iterable
        THEN [raised |-> "ValueError", line |-> 178, num_item_buckets |-> -1]
    ELSE IF MinNotZero(t)
        THEN [raised |-> "ValueError", line |-> 179, num_item_buckets |-> -1]
    ELSE IF CoverageMismatch(t, n_users)
        THEN [raised |-> "ValueError", line |-> 181, num_item_buckets |-> -1]
    ELSE [raised |-> "none", line |-> 187, num_item_buckets |-> Max(t) + 1]

\* What the documentation asks of item_buckets: one bucket id per item, ids
\* starting at 0, every integer in [0, max] present.
ValidItemBuckets(t, n_items) ==
    /\ Len(t) = n_items
    /\ t # <<>>
    /\ Min(t) = 0
    /\ Range(t) = 0..Max(t)

NoCall == [item_buckets |-> <<>>, num_items |-> 0, num_users |-> 0,
           pc |-> "idle", raised |-> "none", line |-> 0, num_item_buckets |-> -1]

CtorInputs ==
    {[item_buckets |-> t, num_items |-> n, num_users |-> u,
      pc |-> "called", raised |-> "none", line |-> 0, num_item_buckets |-> -1] :
        t \in SeqsUpTo(0..MaxBucketId, MaxListLen),
        n \in 0..MaxDataItems, u \in 0..MaxDataUsers}

\* No trained model, hybrid model or directory exists.
NoHybrid ==
    /\ heap = <<>>
    /\ hyb = <<>>
    /\ disk = <<>>
    /\ saved = <<>>
    /\ hlast = [op |-> "none"]
    /\ hops = 0

\* No _copy_weights call is being followed.
NoCopy == [pc |-> "idle"]

\* No ColdStartModel exists.
NoTables ==
    /\ stage = "none"
    /\ item_buckets = <<>>
    /\ num_users = 0
    /\ item_bucket_biases = <<>>
    /\ item_bucket_embeddings = <<>>
    /\ user_biases = <<>>
    /\ user_embeddings = <<>>
    /\ item_biases = <<>>
    /\ item_embeddings = <<>>
    /\ last = [op |-> "none"]
    /\ fitted = {}

NoModel ==
    /\ NoTables
    /\ copy = NoCopy

\* ZeroEmbedding(num_embeddings = n, embedding_dim = d): all weights zero
ZeroEmbedding(n, d) == [r \in 1..n |-> [c \in 1..d |-> 0]]

\* ScaledEmbedding(num_embeddings = n, embedding_dim = d): weights drawn at
\* random; `draw` stands for what the generator gives when the table is built
ScaledEmbedding(n, d, draw) ==
    [r \in 1..n |-> [c \in 1..d |-> (draw + r + c) % (MaxVal + 1)]]

\* hparams.stage_list: the 'stage' entries of optimizer_config_list, in order
StageList == <<"item_buckets", "no_buckets">>

\* hparams.stage of a new model: MultiStagePipeline starts in the first stage
\* of the list
FirstStage == StageList[1]

\* the six tables of a model, by attribute name
Tables ==
    [item_bucket_biases |-> item_bucket_biases,
     item_bucket_embeddings |-> item_bucket_embeddings,
     user_biases |-> user_biases,
     user_embeddings |-> user_embeddings,
     item_biases |-> item_biases,
     item_embeddings |-> item_embeddings]

\* _setup_model, lines 217-258: the six tables built from hparams.num_users,
\* hparams.num_items and hparams.num_item_buckets
SetupModelTables(n_users, n_items, n_item_buckets) ==
    [item_bucket_biases |-> ZeroEmbedding(n_item_buckets, BiasDim),
     item_bucket_embeddings |-> ScaledEmbedding(n_item_buckets, EmbeddingDim, 0),
     user_biases |-> ZeroEmbedding(n_users, BiasDim),
     user_embeddings |-> ScaledEmbedding(n_users, EmbeddingDim, 1),
     item_biases |-> ZeroEmbedding(n_items, BiasDim),
     item_embeddings |-> ScaledEmbedding(n_items, EmbeddingDim, 2)]

\* ColdStartModel(train, item_buckets) has been called and has not run yet;
\* no model of any kind exists.
InitConstruct ==
    /\ ctor \in CtorInputs
    /\ NoModel
    /\ NoHybrid

\* __init__ runs, lines 138-189.  When no check raises, line 185 hands
\* num_item_buckets to MultiStagePipeline.__init__, which stores the
\* hyperparameters, starts in the first stage and calls _setup_model; when a
\* check raises, no model comes to exist.
Construct ==
    /\ ctor.pc = "called"
    /\ LET r == ColdStartInit(ctor.item_buckets, ctor.num_items, ctor.num_users)
           built == r.raised = "none"
           t == IF built
                THEN SetupModelTables(ctor.num_users, ctor.num_items, r.num_item_buckets)
                ELSE Tables
       IN  /\ ctor' = [ctor EXCEPT !.pc = "returned", !.raised = r.raised,
                                   !.line = r.line,
                                   !.num_item_buckets = r.num_item_buckets]
           /\ stage' = IF built THEN FirstStage ELSE stage
           /\ item_buckets' = IF built THEN ctor.item_buckets ELSE item_buckets
           /\ num_users' = IF built THEN ctor.num_users ELSE num_users
           /\ item_bucket_biases' = t.item_bucket_biases
           /\ item_bucket_embeddings' = t.item_bucket_embeddings
           /\ user_biases' = t.user_biases
           /\ user_embeddings' = t.user_embeddings
           /\ item_biases' = t.item_biases
           /\ item_embeddings' = t.item_embeddings
    /\ UNCHANGED <<last, fitted, copy>>
    /\ UNCHANGED hybVars

NextConstruct == Construct

SpecConstruct == InitConstruct /\ [][NextConstruct]_vars

\* the constructor has returned from a call on a valid assignment
CalledOnValid ==
    /\ ctor.pc = "returned"
    /\ ValidItemBuckets(ctor.item_buckets, ctor.num_items)

\* a ColdStartModel exists
ModelExists == stage # "none"

\* C1: constructing a ColdStartModel succeeds for every valid item_buckets
\* assignment, on any dataset, with num_item_buckets = max(item_buckets) + 1.
C1_ValidConstructs ==
    CalledOnValid
        => (ctor.raised = "none"
            /\ ctor.num_item_buckets = Max(ctor.item_buckets) + 1)

\* C5: constructing a ColdStartModel raises a ValueError, and builds no model,
\* for every item_buckets whose length is not the number of items, whose
\* minimum is not 0, or which misses an integer of [0, max].
C5_InvalidRejected ==
    (ctor.pc = "returned" /\ ~ValidItemBuckets(ctor.item_buckets, ctor.num_items))
        => (ctor.raised = "ValueError" /\ ctor.num_item_buckets = -1
            /\ ~ModelExists)

\* an assignment that skips bucket 1 has been rejected by the constructor
C5_Witness ==
    /\ ctor.pc = "returned"
    /\ ctor.raised = "ValueError"
    /\ ctor.item_buckets = <<0, 2, 0>>
    /\ ctor.num_items = 3
    /\ ctor.num_users = 3

(***************************************************************************)
(* A constructed ColdStartModel: set_stage (lines 196-215), _copy_weights  *)
(* (lines 193-194), forward (lines 277-296) and the per-stage optimizers   *)
(* configured at lines 140-163.                                            *)
(***************************************************************************)
\* the names set_stage is called with: the registered ones and another
StageArgs == {"item_buckets", "no_buckets", "all_items"}

\* 'parameter_prefix_list' of each stage's optimizer (lines 144-149, 155-160)
ParameterPrefixList(st) ==
    IF st = "item_buckets"
        THEN {"user_embed", "user_bias", "item_bucket_embed", "item_bucket_bias"}
    ELSE IF st = "no_buckets"
        THEN {"user_embed", "user_bias", "item_embed", "item_bias"}
    ELSE {}

\* the six tables built by _setup_model, and the prefix of the list above
\* that each one's parameter name starts with
TableNames == {"item_bucket_biases", "item_bucket_embeddings", "user_biases",
               "item_biases", "user_embeddings", "item_embeddings"}

PrefixOf(name) ==
    CASE name = "item_bucket_biases"     -> "item_bucket_bias"
      [] name = "item_bucket_embeddings" -> "item_bucket_embed"
      [] name = "user_biases"            -> "user_bias"
      [] name = "item_biases"            -> "item_bias"
      [] name = "user_embeddings"        -> "user_embed"
      [] name = "item_embeddings"        -> "item_embed"

\* old.weight.data[buckets]: one row of `old` per entry of `buckets`
IndexRows(old, buckets) == [i \in 1..Len(buckets) |-> old[buckets[i] + 1]]

\* row-wise sum of two tables of one shape
AddTables(a, b) == [r \in 1..Len(a) |-> [c \in 1..Len(a[r]) |-> a[r][c] + b[r][c]]]

\* _copy_weights indexing `old` by position instead of by bucket
CopyWeightsByPosition(old, new, buckets) ==
    [old |-> old,
     new |-> [i \in 1..Len(new) |-> old[IF i <= Len(old) THEN i ELSE Len(old)]]]

\* _copy_weights writing into `old` from `new` (the two tables swapped), which
\* copy_ accepts when the shapes agree
CopyWeightsReversed(old, new, buckets) ==
    IF Len(old) = Len(buckets)
        THEN [old |-> IndexRows(new, buckets), new |-> new]
        ELSE [old |-> old, new |-> new]

\* _copy_weights with add_ in place of copy_
CopyWeightsAccumulating(old, new, buckets) ==
    [old |-> old, new |-> AddTables(new, IndexRows(old, buckets))]

\* _copy_weights(old, new, buckets): new.weight.data.copy_(old.weight.data[buckets]),
\* for a `new` of the shape of old[buckets].  It works in place; the result
\* names the contents of both tables afterwards.
CopyWeights(old, new, buckets) ==
    [old |-> old, new |-> IndexRows(old, buckets)]

\* line 200: stage in self.hparams.stage_list
IsRegistered(s) == s \in Range(StageList)

\* the copy running for every call that targets 'no_buckets'
CopiesOnTargetOnly(current_stage, s) == s = "no_buckets"

\* line 201: the only transition that copies
CopiesOn(current_stage, s) == current_stage = "item_buckets" /\ s = "no_buckets"

\* hparams.stage assigned before the name is validated
StageAfterUnchecked(current_stage, s) == s

\* hparams.stage after set_stage(s): line 214 is reached only when line 210
\* did not raise
StageAfter(current_stage, s) == IF IsRegistered(s) THEN s ELSE current_stage

tableVars == <<item_bucket_biases, item_bucket_embeddings, user_biases,
               user_embeddings, item_biases, item_embeddings>>

\* set_stage(s), lines 196-215, on a model in stage st with assignment
\* `buckets` and tables t: the exception raised, the stage and the tables
\* afterwards
SetStageOn(st, buckets, t, s) ==
    LET b == CopyWeights(t.item_bucket_biases, t.item_biases, buckets)
        e == CopyWeights(t.item_bucket_embeddings, t.item_embeddings, buckets)
    IN  [raised |-> IF IsRegistered(s) THEN "none" ELSE "ValueError",
         stage |-> StageAfter(st, s),
         tables |-> IF IsRegistered(s) /\ CopiesOn(st, s)
                    THEN [t EXCEPT !.item_bucket_biases = b.old,
                                   !.item_biases = b.new,
                                   !.item_bucket_embeddings = e.old,
                                   !.item_embeddings = e.new]
                    ELSE t]

\* model.set_stage(s) on the constructed model
SetStage(s) ==
    /\ ModelExists
    /\ LET r == SetStageOn(stage, item_buckets, Tables, s)
       IN  /\ stage' = r.stage
           /\ item_bucket_biases' = r.tables.item_bucket_biases
           /\ item_bucket_embeddings' = r.tables.item_bucket_embeddings
           /\ user_biases' = r.tables.user_biases
           /\ user_embeddings' = r.tables.user_embeddings
           /\ item_biases' = r.tables.item_biases
           /\ item_embeddings' = r.tables.item_embeddings
           /\ last' = [op |-> "set_stage", from |-> stage, arg |-> s,
                       raised |-> r.raised]
    /\ UNCHANGED <<ctor, item_buckets, num_users, fitted, copy>>
    /\ UNCHANGED hybVars

TableOf(name) ==
    CASE name = "item_bucket_biases"     -> item_bucket_biases
      [] name = "item_bucket_embeddings" -> item_bucket_embeddings
      [] name = "user_biases"            -> user_biases
      [] name = "item_biases"            -> item_biases
      [] name = "user_embeddings"        -> user_embeddings
      [] name = "item_embeddings"        -> item_embeddings

\* the value an optimizer step moves a weight to
Stepped(v) == IF v >= MaxVal THEN 0 ELSE v + 1

\* trainer.fit(model) in the current stage, run once per stage: the stage's
\* optimizer changes a row of a table whose parameter name starts with a
\* prefix of the stage's list.
Fit(name, r, v) ==
    /\ ModelExists
    /\ stage \notin fitted
    /\ PrefixOf(name) \in ParameterPrefixList(stage)
    /\ r \in DOMAIN TableOf(name)
    /\ v = Stepped(TableOf(name)[r][1])
    /\ LET row == [c \in DOMAIN TableOf(name)[r] |-> v]
           t == [TableOf(name) EXCEPT ![r] = row]
       IN  /\ row # TableOf(name)[r]
           /\ item_bucket_biases' =
                  IF name = "item_bucket_biases" THEN t ELSE item_bucket_biases
           /\ item_bucket_embeddings' =
                  IF name = "item_bucket_embeddings" THEN t ELSE item_bucket_embeddings
           /\ user_biases' = IF name = "user_biases" THEN t ELSE user_biases
           /\ item_biases' = IF name = "item_biases" THEN t ELSE item_biases
           /\ user_embeddings' = IF name = "user_embeddings" THEN t ELSE user_embeddings
           /\ item_embeddings' = IF name = "item_embeddings" THEN t ELSE item_embeddings
    /\ fitted' = fitted \cup {stage}
    /\ last' = [op |-> "fit"]
    /\ UNCHANGED <<ctor, stage, item_buckets, num_users, copy>>
    /\ UNCHANGED hybVars

\* the sum of the products of two rows, column by column, from column c on
RECURSIVE MulSum(_, _, _)
MulSum(x, y, c) == IF c > Len(x) THEN 0 ELSE x[c] * y[c] + MulSum(x, y, c + 1)

\* an item-side lookup that takes the embedding from the stage's table but the
\* bias always from item_biases
ItemLookupBiasFromItems(st, buckets, t, i) ==
    IF st = "item_buckets"
        THEN [item_embeddings |-> t.item_bucket_embeddings[buckets[i + 1] + 1],
              item_biases |-> t.item_biases[i + 1]]
        ELSE [item_embeddings |-> t.item_embeddings[i + 1],
              item_biases |-> t.item_biases[i + 1]]

\* lines 280-288: the item's embedding row and bias row in stage st; in stage
\* 'item_buckets' the item id is first mapped to its bucket id (line 282)
ItemLookup(st, buckets, t, i) ==
    IF st = "item_buckets"
        THEN [item_embeddings |-> t.item_bucket_embeddings[buckets[i + 1] + 1],
              item_biases |-> t.item_bucket_biases[buckets[i + 1] + 1]]
        ELSE [item_embeddings |-> t.item_embeddings[i + 1],
              item_biases |-> t.item_biases[i + 1]]

\* forward(users = [u], items = [i]) in stage st on tables t, lines 277-296,
\* in evaluation mode (dropout is the identity)
ForwardOn(st, buckets, t, u, i) ==
    LET item == ItemLookup(st, buckets, t, i)
    IN  MulSum(t.user_embeddings[u + 1], item.item_embeddings, 1)
          + t.user_biases[u + 1][1]
          + item.item_biases[1]

\* forward on every (user, item) pair
ScoresOn(st, buckets, t) ==
    [u \in 0..(Len(t.user_embeddings) - 1) |->
        [i \in 0..(Len(buckets) - 1) |-> ForwardOn(st, buckets, t, u, i)]]

\* forward(users, items) on every (user, item) pair: nothing of the model
\* changes
ColdForward ==
    /\ ModelExists
    /\ last' = [op |-> "forward", scores |-> ScoresOn(stage, item_buckets, Tables)]
    /\ UNCHANGED <<ctor, stage, item_buckets, num_users, fitted, copy>>
    /\ UNCHANGED tableVars
    /\ UNCHANGED hybVars

\* The program around a ColdStartModel: the constructor runs, and the model
\* it builds, if it builds one, is switched between stages, trained and
\* scored.
Next ==
    \/ Construct
    \/ \E s \in StageArgs : SetStage(s)
    \/ \E name \in TableNames, r \in 1..MaxItems, v \in Vals : Fit(name, r, v)
    \/ ColdForward

Spec == InitConstruct /\ [][Next]_vars

(***************************************************************************)
(* set_stage, trainer.fit and forward as calls on a model object.  The     *)
(* methods read self.hparams (stage, stage_list, item_buckets) and the six *)
(* tables and nothing else, so the object they are called on is their      *)
(* input: it is taken as _setup_model (lines 217-258) builds it from the   *)
(* hyperparameters of a valid assignment, in the first stage.  __init__    *)
(* itself raises before it builds such an object (C1).                     *)
(***************************************************************************)
\* the assignments that meet the documented conditions
ValidAssignments ==
    {t \in SeqsUpTo(0..(MaxItems - 1), MaxItems) : ValidItemBuckets(t, Len(t))}

\* the object the methods are called on
InitStage ==
    /\ ctor = NoCall
    /\ copy = NoCopy
    /\ item_buckets \in ValidAssignments
    /\ num_users \in 1..MaxUsers
    /\ stage = FirstStage
    /\ LET t == SetupModelTables(num_users, Len(item_buckets), Max(item_buckets) + 1)
       IN  /\ item_bucket_biases = t.item_bucket_biases
           /\ item_bucket_embeddings = t.item_bucket_embeddings
           /\ user_biases = t.user_biases
           /\ user_embeddings = t.user_embeddings
           /\ item_biases = t.item_biases
           /\ item_embeddings = t.item_embeddings
    /\ last = [op |-> "none"]
    /\ fitted = {}
    /\ NoHybrid

NextStage ==
    \/ \E s \in StageArgs : SetStage(s)
    \/ \E name \in TableNames, r \in 1..MaxItems, v \in Vals : Fit(name, r, v)
    \/ ColdForward

SpecStage == InitStage /\ [][NextStage]_vars

(***************************************************************************)
(* _copy_weights as a function of its arguments: it reads nothing of the   *)
(* model it is called on.                                                  *)
(***************************************************************************)
\* the tables of n rows over the model's values
TablesOf(n) == [1..n -> [1..EmbeddingDim -> Vals]]

\* the tables of n rows that hold one value everywhere
ConstantTablesOf(n) == {[r \in 1..n |-> [c \in 1..EmbeddingDim |-> v]] : v \in Vals}

\* _copy_weights(old, new, buckets) is about to be called
CopyInputs(old, new, buckets) ==
    [pc |-> "called", old |-> old, new |-> new, buckets |-> buckets,
     dest |-> new, first |-> <<>>, applied |-> 0]

\* `old` has up to MaxCopyRows rows, `buckets` is a non-empty list of up to
\* MaxCopyRows rows of `old`, and `new` has the shape of old[buckets]
InitCopy ==
    /\ ctor = NoCall
    /\ NoTables
    /\ NoHybrid
    /\ \E n \in 1..MaxCopyRows :
         \E b \in SeqsUpTo(0..(n - 1), MaxCopyRows) \ {<<>>} :
           \E old \in TablesOf(n), new \in ConstantTablesOf(Len(b)) :
              copy = CopyInputs(old, new, b)

\* _copy_weights(old, new, buckets) is called, and then called again
CopyWeightsCall ==
    /\ copy.pc = "called"
    /\ copy.applied < 2
    /\ LET r == CopyWeights(copy.old, copy.new, copy.buckets)
       IN  copy' = [copy EXCEPT !.old = r.old,
                                !.new = r.new,
                                !.first = IF copy.applied = 0 THEN r.new ELSE @,
                                !.applied = @ + 1]
    /\ UNCHANGED <<ctor, stage, item_buckets, num_users, last, fitted>>
    /\ UNCHANGED tableVars
    /\ UNCHANGED hybVars

NextCopy == CopyWeightsCall

SpecCopy == InitCopy /\ [][NextCopy]_vars

\* C9: for every source table, destination table and assignment, after
\* _copy_weights has been applied twice the destination table is what it was
\* after the first application.
C9_CopyTwiceIsCopyOnce ==
    (copy.pc = "called" /\ copy.applied = 2) => copy.new = copy.first

\* the copy has run twice for an assignment that names two buckets with
\* different rows, and the first run changed the destination
C9_Witness ==
    /\ copy.pc = "called"
    /\ copy.applied = 2
    /\ copy.first # copy.dest
    /\ \E i, j \in DOMAIN copy.buckets : copy.first[i] # copy.first[j]

(***************************************************************************)
(* Claims about set_stage, _copy_weights and forward, checked on the calls  *)
(* made on a model object (SpecStage).                                     *)
(***************************************************************************)
\* the last call was a set_stage that took item_buckets -> no_buckets
JustExpanded ==
    /\ last.op = "set_stage"
    /\ last.from = "item_buckets"
    /\ last.arg = "no_buckets"
    /\ last.raised = "none"

\* table `full` holds, for every item, the row of `bucketed` of the item's bucket
ExpandedFrom(full, bucketed) ==
    /\ DOMAIN full = DOMAIN item_buckets
    /\ \A i \in DOMAIN item_buckets : full[i] = bucketed[item_buckets[i] + 1]

\* C2: right after every successful set_stage('no_buckets') issued in stage
\* 'item_buckets', item_embeddings[i] = item_bucket_embeddings[item_buckets[i]]
\* and item_biases[i] = item_bucket_biases[item_buckets[i]] for every item i,
\* whatever the item tables held before and however often the transition was
\* taken; and expanding [[9],[8],[7]] by [1,0,2,2,1] gives [[8],[9],[7],[7],[8]].
C2_ItemRowsAreBucketRows ==
    /\ CopyWeights(<<<<9>>, <<8>>, <<7>>>>, ZeroEmbedding(5, 1), <<1, 0, 2, 2, 1>>).new
          = <<<<8>>, <<9>>, <<7>>, <<7>>, <<8>>>>
    /\ JustExpanded =>
          /\ ExpandedFrom(item_embeddings, item_bucket_embeddings)
          /\ ExpandedFrom(item_biases, item_bucket_biases)

\* the transition taken again after a return to 'item_buckets', with the item
\* tables trained in 'no_buckets' and the bucket tables trained in between
C2_Witness ==
    /\ JustExpanded
    /\ fitted = {"item_buckets", "no_buckets"}
    /\ item_buckets = <<1, 0, 1>>
    /\ item_biases = <<<<1>>, <<0>>, <<1>>>>

\* C3: set_stage with a name that is not registered raises ValueError and
\* changes neither the current stage nor any of the six tables.
C3_UnregisteredLeavesModel ==
    [][(last'.op = "set_stage" /\ ~IsRegistered(last'.arg))
          => (/\ last'.raised = "ValueError"
              /\ stage' = stage
              /\ tableVars' = tableVars)]_vars

\* an unregistered name was rejected in stage 'no_buckets', after training
C3_Witness ==
    /\ last.op = "set_stage"
    /\ last.arg = "all_items"
    /\ last.raised = "ValueError"
    /\ stage = "no_buckets"
    /\ fitted # {}

\* C8: set_stage with a registered name always ends in that stage, from either
\* stage; the copy runs when (and only when) the call goes from 'item_buckets'
\* to 'no_buckets', and every other call leaves all tables as they were.
C8_RegisteredAlwaysSwitches ==
    [][(last'.op = "set_stage" /\ IsRegistered(last'.arg))
          => (/\ last'.raised = "none"
              /\ stage' = last'.arg
              /\ IF stage = "item_buckets" /\ last'.arg = "no_buckets"
                   THEN /\ item_embeddings' = IndexRows(item_bucket_embeddings, item_buckets)
                        /\ item_biases' = IndexRows(item_bucket_biases, item_buckets)
                   ELSE tableVars' = tableVars)]_vars

\* set_stage('no_buckets') was called in stage 'no_buckets' on item tables that
\* training had moved away from the bucket rows
C8_Witness ==
    /\ last.op = "set_stage"
    /\ last.from = "no_buckets"
    /\ last.arg = "no_buckets"
    /\ stage = "no_buckets"
    /\ "no_buckets" \in fitted
    /\ ~ExpandedFrom(item_biases, item_bucket_biases)

\* C10: across a set_stage transition item_buckets -> no_buckets the two
\* bucket tables, the two user tables and item_buckets are left as they were.
C10_CopyChangesItemTablesOnly ==
    [][(last'.op = "set_stage" /\ stage = "item_buckets" /\ last'.arg = "no_buckets")
          => (/\ item_bucket_biases' = item_bucket_biases
              /\ item_bucket_embeddings' = item_bucket_embeddings
              /\ user_biases' = user_biases
              /\ user_embeddings' = user_embeddings
              /\ item_buckets' = item_buckets)]_vars

\* the copy has run and changed an item table while the bucket tables, trained
\* before it, have as many rows as there are items
C10_Witness ==
    /\ JustExpanded
    /\ Len(item_bucket_biases) = Len(item_buckets)
    /\ item_bucket_biases # ZeroEmbedding(Len(item_bucket_biases), BiasDim)
    /\ item_embeddings # ScaledEmbedding(Len(item_buckets), EmbeddingDim, 2)

\* table `name` of t with every row replaced by the constant row of v's
Overwritten(t, name, v) ==
    [t EXCEPT ![name] = [r \in DOMAIN @ |-> [c \in DOMAIN @[r] |-> v]]]

\* the item-side tables of the stage that is not st
OtherStageTables(st) ==
    IF st = "item_buckets" THEN {"item_biases", "item_embeddings"}
    ELSE {"item_bucket_biases", "item_bucket_embeddings"}

\* C11: in every state, the scores forward gives in stage 'item_buckets' are
\* user_embeddings[u] . item_bucket_embeddings[item_buckets[i]] + user_biases[u]
\* + item_bucket_biases[item_buckets[i]], in stage 'no_buckets' they are
\* user_embeddings[u] . item_embeddings[i] + user_biases[u] + item_biases[i],
\* and in each stage they stay the same when a table of the other stage is
\* overwritten with a value no table holds.
C11_ForwardReadsStageTables ==
    ModelExists =>
        /\ \A u \in 0..(num_users - 1), i \in 0..(Len(item_buckets) - 1) :
              ForwardOn(stage, item_buckets, Tables, u, i) =
                IF stage = "item_buckets"
                THEN MulSum(user_embeddings[u + 1],
                            item_bucket_embeddings[item_buckets[i + 1] + 1], 1)
                       + user_biases[u + 1][1]
                       + item_bucket_biases[item_buckets[i + 1] + 1][1]
                ELSE MulSum(user_embeddings[u + 1], item_embeddings[i + 1], 1)
                       + user_biases[u + 1][1] + item_biases[i + 1][1]
        /\ \A name \in OtherStageTables(stage) :
              ScoresOn(stage, item_buckets, Overwritten(Tables, name, MaxVal + 1))
                = ScoresOn(stage, item_buckets, Tables)
        /\ last.op = "forward" =>
              last.scores = ScoresOn(stage, item_buckets, Tables)

\* forward ran in stage 'no_buckets' on a model whose item tables no longer
\* hold the rows of the bucket tables, so reading the other stage's tables
\* would give other scores
C11_Witness ==
    /\ last.op = "forward"
    /\ stage = "no_buckets"
    /\ fitted = {"item_buckets", "no_buckets"}
    /\ \/ ~ExpandedFrom(item_embeddings, item_bucket_embeddings)
       \/ ~ExpandedFrom(item_biases, item_bucket_biases)
    /\ last.scores # ScoresOn("item_buckets", item_buckets, Tables)

\* C15: set_stage('item_buckets') called while the stage is 'no_buckets'
\* raises an error and the stage stays 'no_buckets'.
C15_ReverseTransitionFails ==
    (last.op = "set_stage" /\ last.from = "no_buckets" /\ last.arg = "item_buckets")
        => (last.raised # "none" /\ stage = "no_buckets")

(***************************************************************************)
(* HybridPretrainedModel.                                                  *)
(*                                                                         *)
(* Tensors that can be shared between objects (the embedding tables of the *)
(* trained MatrixFactorizationModels and of the hybrid models) live in     *)
(* `heap`, addressed by object identity; a model holds the identities.     *)
(* A parameter is [data, requires_grad].  None is the empty sequence and a *)
(* value x that may be None is <<x>>.                                      *)
(***************************************************************************)
\* two trained MatrixFactorizationModels and two HybridPretrainedModels
Sources == {1, 2}
Hybrids == {1, 2}

\* the identities of the tables of trained model k and of hybrid model h
SourceUserId(k) == 2 * k - 1
SourceItemId(k) == 2 * k
HybridUserId(h) == 2 * Cardinality(Sources) + 2 * h - 1
HybridItemId(h) == 2 * Cardinality(Sources) + 2 * h
TensorIds == 1..(2 * Cardinality(Sources) + 2 * Cardinality(Hybrids))

Param(d, g) == [data |-> d, requires_grad |-> g]

\* nn.Linear(n_in, n_out) after nn.init.xavier_normal_: random weights and
\* biases, `draw` standing for what the generator gives
Linear(n_in, n_out, draw) ==
    [weight |-> Param([r \in 1..n_out |->
                         [c \in 1..n_in |-> ((draw + r + c) % (MaxVal + 2)) - 1]], TRUE),
     bias   |-> Param([r \in 1..n_out |-> ((draw + r) % (MaxVal + 2)) - 1], TRUE)]

\* layer(x) for a Linear layer and a vector x, every entry multiplied by
\* `scale` (the bias is added in the units of x)
ApplyLinear(layer, x, scale) ==
    LET RECURSIVE Dot(_, _, _)
        Dot(w, v, n) == IF n = 0 THEN 0 ELSE w[n] * v[n] + Dot(w, v, n - 1)
    IN  [r \in 1..Len(layer.weight.data) |->
            Dot(layer.weight.data[r], x, Len(x)) + scale * layer.bias.data[r]]

\* F.leaky_relu (negative_slope 0.01) of a vector, times 100
LeakyRelu100(x) == [i \in 1..Len(x) |-> IF x[i] >= 0 THEN 100 * x[i] ELSE x[i]]

\* Lines 277-284: the metadata layers applied to one metadata row.  Dropout is
\* the identity (p = 0, or evaluation mode).  The result is <<vector, scale>>:
\* the vector holds the activations times `scale`.
RECURSIVE MetadataOutput(_, _, _, _)
MetadataOutput(layers, n, x, scale) ==
    IF n > Len(layers) THEN <<x, scale>>
    ELSE MetadataOutput(layers, n + 1,
                        LeakyRelu100(ApplyLinear(layers[n], x, scale)), 100 * scale)

\* Lines 289-296: the combined layers, all but the last followed by leaky_relu
RECURSIVE CombinedOutput(_, _, _, _)
CombinedOutput(layers, n, x, scale) ==
    IF n = Len(layers) THEN <<ApplyLinear(layers[n], x, scale), scale>>
    ELSE CombinedOutput(layers, n + 1,
                        LeakyRelu100(ApplyLinear(layers[n], x, scale)), 100 * scale)

ScaleVector(x, k) == [i \in 1..Len(x) |-> k * x[i]]

\* forward(users = [u], items = [i]) of a model with the metadata matrix md,
\* the embedding tables ue and ie and the given layers (lines 277-298).
\* The score is result[1][1] / result[2]; u and i are 0-based ids.
ForwardOf(md, ue, ie, metadata_layers, combined_layers, u, i) ==
    LET m == IF metadata_layers = <<>>
                 THEN <<md[i + 1], 1>>
                 ELSE MetadataOutput(metadata_layers[1], 1, md[i + 1], 1)
        combined_input == ScaleVector(ue[u + 1], m[2]) \o ScaleVector(ie[i + 1], m[2]) \o m[1]
    IN  CombinedOutput(combined_layers, 1, combined_input, m[2])

None == <<>>
Some(x) == <<x>>

\* 'metadata_layer_{}'.format(i) and 'combined_layer_{}'.format(i), lines 240, 257
MetadataLayerName(i) == <<"metadata_layer_0", "metadata_layer_1">>[i + 1]
CombinedLayerName(i) == <<"combined_layer_0", "combined_layer_1", "combined_layer_2">>[i + 1]
LayerNames == {"metadata_layer_0", "combined_layer_0", "combined_layer_1"}

\* a layer name under which no module is registered
NoLayer == [weight |-> Param(<<>>, TRUE), bias |-> Param(<<>>, TRUE)]

NoHparams ==
    [load_model_path |-> None, freeze_embeddings |-> FALSE,
     metadata_layers_dims |-> None, combined_layers_dims |-> <<>>,
     item_metadata_num_cols |-> 0, dropout_p |-> 0,
     user_num_embeddings |-> 0, user_embeddings_dim |-> 0,
     item_num_embeddings |-> 0, item_embeddings_dim |-> 0]

\* A HybridPretrainedModel object.  trained_model is the identity of the
\* MatrixFactorizationModel held as self._trained_model (0: no such
\* attribute); item_metadata is None while the attribute is not set;
\* embeddings holds the identities of embeddings[0].weight and
\* embeddings[1].weight; modules lists the registered sub-modules in
\* registration order and layer the Linear registered under each name;
\* metadata_layers and combined_layers list the names of the layers forward
\* runs through.
NoHybridModel ==
    [state |-> "absent", hparams |-> NoHparams, trained_model |-> 0,
     item_metadata |-> None, embeddings |-> <<>>, modules |-> <<>>,
     layer |-> [n \in LayerNames |-> NoLayer],
     metadata_layers |-> None, combined_layers |-> <<>>,
     training |-> TRUE, fitted |-> FALSE]

\* nn.Module.__setattr__ / add_module: a new name is appended to the registry,
\* a known name keeps its place
Register(modules, name) ==
    IF name \in Range(modules) THEN modules ELSE Append(modules, name)

RECURSIVE RegisterAll(_, _, _)
RegisterAll(modules, names, n) ==
    IF n > Len(names) THEN modules
    ELSE RegisterAll(Register(modules, names[n]), names, n + 1)

\* copy.deepcopy(obj): the identity of the copy, a fresh object
DeepCopy(obj, fresh) == fresh

\* a freeze or unfreeze that reaches only the user table
SetUserEmbeddingGrad(hp, emb, flag) ==
    [id \in DOMAIN hp |->
        IF id = emb[1] THEN [hp[id] EXCEPT !.requires_grad = flag]
        ELSE hp[id]]

\* freeze_embeddings / unfreeze_embeddings, lines 307-315, on embeddings emb
SetEmbeddingsGrad(hp, emb, flag) ==
    [id \in DOMAIN hp |->
        IF id = emb[1] \/ id = emb[2] THEN [hp[id] EXCEPT !.requires_grad = flag]
        ELSE hp[id]]

\* dummy tables that follow the freeze policy recorded in the hyperparameters
DummyRequiresGradByPolicy(hps) == ~hps.freeze_embeddings

\* lines 218-223: the dummy tables are new ScaledEmbeddings, whose weight
\* requires gradients; neither freeze_embeddings nor unfreeze_embeddings is
\* called on this branch
DummyRequiresGrad(hps) == TRUE

\* Lines 194-223 of _setup_model for model m (hybrid h) on heap hp with the
\* keyword arguments kw: the embeddings.
SetupEmbeddings(m, hp, h, kw, draw) ==
    IF m.hparams.load_model_path = None
    THEN
        IF m.trained_model = 0 /\ kw.trained_model = 0
        THEN [raised |-> "KeyError", m |-> m, heap |-> hp]
        ELSE
            LET tm == IF m.trained_model = 0 THEN kw.trained_model ELSE m.trained_model
                m1 == [m EXCEPT !.trained_model = tm,
                                !.modules = Register(@, "_trained_model")]
            IN
            IF m.item_metadata = None /\ kw.item_metadata = None
            THEN [raised |-> "KeyError", m |-> m1, heap |-> hp]
            ELSE
                LET md == IF m.item_metadata = None THEN kw.item_metadata
                                                    ELSE m.item_metadata
                    emb == <<DeepCopy(SourceUserId(tm), HybridUserId(h)),
                             DeepCopy(SourceItemId(tm), HybridItemId(h))>>
                    hp1 == [hp EXCEPT ![HybridUserId(h)] = hp[SourceUserId(tm)],
                                      ![HybridItemId(h)] = hp[SourceItemId(tm)]]
                    hp2 == SetEmbeddingsGrad(hp1, emb, ~m.hparams.freeze_embeddings)
                    ue == hp2[emb[1]].data
                    ie == hp2[emb[2]].data
                IN  [raised |-> "none",
                     m |-> [m1 EXCEPT
                              !.item_metadata = md,
                              !.embeddings = emb,
                              !.modules = Register(@, "embeddings"),
                              !.hparams.user_num_embeddings = Len(ue),
                              !.hparams.user_embeddings_dim = Len(ue[1]),
                              !.hparams.item_num_embeddings = Len(ie),
                              !.hparams.item_embeddings_dim = Len(ie[1])],
                     heap |-> hp2]
    ELSE
        LET emb == <<HybridUserId(h), HybridItemId(h)>>
        IN  [raised |-> "none",
             m |-> [m EXCEPT !.embeddings = emb,
                             !.modules = Register(@, "embeddings")],
             heap |-> [hp EXCEPT
                 ![emb[1]] = Param(ScaledEmbedding(m.hparams.user_num_embeddings,
                                                   m.hparams.user_embeddings_dim, draw),
                                   DummyRequiresGrad(m.hparams)),
                 ![emb[2]] = Param(ScaledEmbedding(m.hparams.item_num_embeddings,
                                                   m.hparams.item_embeddings_dim, draw + 1),
                                   DummyRequiresGrad(m.hparams))]]

\* Lines 225-257 of _setup_model: the dropout, metadata and combined layers
SetupLayers(m, draw) ==
    LET hps == m.hparams
        metadata_layers_dims ==
            IF hps.metadata_layers_dims = None THEN <<>>
            ELSE <<hps.item_metadata_num_cols>> \o hps.metadata_layers_dims[1]
        n_metadata == IF metadata_layers_dims = <<>> THEN 0
                      ELSE Len(metadata_layers_dims) - 1
        metadata_output_dim ==
            IF hps.metadata_layers_dims = None THEN hps.item_metadata_num_cols
            ELSE metadata_layers_dims[Len(metadata_layers_dims)]
        combined_dimension_input ==
            hps.user_embeddings_dim + hps.item_embeddings_dim + metadata_output_dim
        combined_layers_dims ==
            <<combined_dimension_input>> \o hps.combined_layers_dims \o <<1>>
        n_combined == Len(combined_layers_dims) - 1
        m_names == [i \in 1..n_metadata |-> MetadataLayerName(i - 1)]
        c_names == [i \in 1..n_combined |-> CombinedLayerName(i - 1)]
        built(n) ==
            IF \E i \in 1..n_metadata : m_names[i] = n
            THEN LET i == CHOOSE i \in 1..n_metadata : m_names[i] = n
                 IN  Linear(metadata_layers_dims[i], metadata_layers_dims[i + 1], draw + i)
            ELSE IF \E i \in 1..n_combined : c_names[i] = n
            THEN LET i == CHOOSE i \in 1..n_combined : c_names[i] = n
                 IN  Linear(combined_layers_dims[i], combined_layers_dims[i + 1],
                            draw + n_metadata + i)
            ELSE m.layer[n]
    IN  [m EXCEPT
            !.modules = RegisterAll(RegisterAll(Register(@, "dropout"), m_names, 1),
                                    c_names, 1),
            !.layer = [n \in LayerNames |-> built(n)],
            !.metadata_layers = IF hps.metadata_layers_dims = None THEN None
                                ELSE Some(m_names),
            !.combined_layers = c_names]

\* _setup_model(**kw), lines 187-257
SetupModel(m, hp, h, kw, draw) ==
    LET e == SetupEmbeddings(m, hp, h, kw, draw)
    IN  IF e.raised # "none" THEN e
        ELSE [raised |-> "none", m |-> SetupLayers(e.m, draw), heap |-> e.heap]

\* The entries a registered module contributes to state_dict(), in order.  A
\* key is <<module name, parameter name within the module>>.
ModuleEntries(m, hp, name) ==
    IF name = "_trained_model"
    THEN <<[key |-> <<"_trained_model", "user_embeddings.weight">>,
            value |-> hp[SourceUserId(m.trained_model)].data],
           [key |-> <<"_trained_model", "item_embeddings.weight">>,
            value |-> hp[SourceItemId(m.trained_model)].data]>>
    ELSE IF name = "embeddings"
    THEN <<[key |-> <<"embeddings", "0.weight">>, value |-> hp[m.embeddings[1]].data],
           [key |-> <<"embeddings", "1.weight">>, value |-> hp[m.embeddings[2]].data]>>
    ELSE IF name = "dropout" THEN <<>>
    ELSE <<[key |-> <<name, "weight">>, value |-> m.layer[name].weight.data],
           [key |-> <<name, "bias">>, value |-> m.layer[name].bias.data]>>

\* self.state_dict(): the parameters of the registered modules, in
\* registration order
RECURSIVE StateDictFrom(_, _, _)
StateDictFrom(m, hp, n) ==
    IF n > Len(m.modules) THEN <<>>
    ELSE ModuleEntries(m, hp, m.modules[n]) \o StateDictFrom(m, hp, n + 1)

StateDict(m, hp) == StateDictFrom(m, hp, 1)

Keys(sd) == {sd[i].key : i \in DOMAIN sd}
ValueAt(sd, k) == sd[CHOOSE i \in DOMAIN sd : sd[i].key = k].value

\* the shape of a parameter: a bias is 1-d, every other parameter 2-d
ShapeOf(k, d) ==
    IF k[2] = "bias" THEN <<Len(d)>>
    ELSE <<Len(d), IF Len(d) = 0 THEN 0 ELSE Len(d[1])>>

\* self.load_state_dict(sd) (strict): every parameter of the model whose key
\* is in sd with the same shape is overwritten IN PLACE with sd's value; then
\* a RuntimeError is raised if a key was missing, unexpected or of another
\* shape.
LoadStateDict(m, hp, sd) ==
    LET own == StateDict(m, hp)
        fits(k) == k \in Keys(sd) /\ ShapeOf(k, ValueAt(sd, k)) = ShapeOf(k, ValueAt(own, k))
        loaded(k, d) == IF k \in Keys(own) /\ fits(k) THEN ValueAt(sd, k) ELSE d
        tensorKey(id) ==
            IF m.trained_model # 0 /\ "_trained_model" \in Range(m.modules)
               /\ id = SourceUserId(m.trained_model)
                THEN <<"_trained_model", "user_embeddings.weight">>
            ELSE IF m.trained_model # 0 /\ "_trained_model" \in Range(m.modules)
               /\ id = SourceItemId(m.trained_model)
                THEN <<"_trained_model", "item_embeddings.weight">>
            ELSE IF id = m.embeddings[1] THEN <<"embeddings", "0.weight">>
            ELSE IF id = m.embeddings[2] THEN <<"embeddings", "1.weight">>
            ELSE <<"", "">>
        hp1 == [id \in DOMAIN hp |->
                   [hp[id] EXCEPT !.data = loaded(tensorKey(id), @)]]
        m1 == [m EXCEPT !.layer =
                 [n \in LayerNames |->
                    [weight |-> [m.layer[n].weight EXCEPT !.data = loaded(<<n, "weight">>, @)],
                     bias   |-> [m.layer[n].bias EXCEPT !.data = loaded(<<n, "bias">>, @)]]]]
        bad == \/ Keys(own) # Keys(sd)
               \/ \E k \in Keys(own) \cap Keys(sd) : ~fits(k)
    IN  [raised |-> IF bad THEN "RuntimeError" ELSE "none", m |-> m1, heap |-> hp1]

(***************************************************************************)
(* The operations on hybrid models.  Hybrid model h is built from trained  *)
(* model h or loaded from the directory.                                   *)
(***************************************************************************)
\* the (metadata_layers_dims, combined_layers_dims) a model is built with
HybridArchs ==
    {[metadata_layers_dims |-> None, combined_layers_dims |-> <<>>],
     [metadata_layers_dims |-> Some(<<1>>), combined_layers_dims |-> <<1>>]}

\* item_metadata.float() (line 175) of the dataset's item metadata: one row
\* per item, one column
ItemMetadata == [i \in 1..NumHybridItems |-> <<i % (MaxVal + 1)>>]

\* the directory `path` of save_model and load_model_path
FileNames == {"metadata.pkl", "model.pth", "notes.txt"}
NoDirectory == [exists |-> FALSE, files |-> [f \in FileNames |-> None]]
EmptyDirectory == [exists |-> TRUE, files |-> [f \in FileNames |-> None]]
OtherDirectory ==
    [exists |-> TRUE,
     files |-> [f \in FileNames |-> IF f = "notes.txt" THEN Some("notes") ELSE None]]

\* os.listdir(path)
ListDir(d) == {f \in FileNames : d.files[f] # None}

LayerData(m, names) ==
    [i \in 1..Len(names) |-> [weight |-> m.layer[names[i]].weight.data,
                              bias |-> m.layer[names[i]].bias.data]]

\* everything forward reads: the metadata, both embedding tables, the layers
ForwardParams(m, hp) ==
    [item_metadata |-> m.item_metadata,
     user |-> hp[m.embeddings[1]].data,
     item |-> hp[m.embeddings[2]].data,
     metadata_layers |-> IF m.metadata_layers = None THEN None
                         ELSE Some(LayerData(m, m.metadata_layers[1])),
     combined_layers |-> LayerData(m, m.combined_layers)]

Layers(m, names) == [i \in 1..Len(names) |-> m.layer[names[i]]]

\* forward(users = [u], items = [i]) of model m, lines 259-298
Forward(m, hp, u, i) ==
    ForwardOf(m.item_metadata[1], hp[m.embeddings[1]].data, hp[m.embeddings[2]].data,
              IF m.metadata_layers = None THEN None
              ELSE Some(Layers(m, m.metadata_layers[1])),
              Layers(m, m.combined_layers), u, i)

\* forward on every (user, item) pair
Scores(m, hp) ==
    [u \in 0..(Len(hp[m.embeddings[1]].data) - 1) |->
        [i \in 0..(Len(hp[m.embeddings[2]].data) - 1) |-> Forward(m, hp, u, i)]]

\* the embedding tables of trained model k, as training left them
SourceUserTable(k) == Param(ScaledEmbedding(MaxUsers, EmbeddingDim, k), TRUE)
SourceItemTable(k) == Param(ScaledEmbedding(NumHybridItems, EmbeddingDim, k + 1), TRUE)

\* The trained MatrixFactorizationModels, two models of one dataset with
\* different weights, and no hybrid model; the directory may be missing, empty
\* or hold another file.
InitHybrid ==
    /\ ctor = NoCall
    /\ NoModel
    /\ heap = [id \in TensorIds |->
                 IF id = SourceUserId(1) THEN SourceUserTable(1)
                 ELSE IF id = SourceItemId(1) THEN SourceItemTable(1)
                 ELSE IF id = SourceUserId(2) THEN SourceUserTable(2)
                 ELSE IF id = SourceItemId(2) THEN SourceItemTable(2)
                 ELSE Param(<<>>, TRUE)]
    /\ hyb = [h \in Hybrids |-> NoHybridModel]
    /\ disk \in {NoDirectory, EmptyDirectory, OtherDirectory}
    /\ saved = None
    /\ hlast = [op |-> "none"]
    /\ hops = MaxHybridOps

\* HybridPretrainedModel(train, item_metadata, trained_model = model h,
\* metadata_layers_dims, combined_layers_dims, freeze_embeddings): lines
\* 163-180, then BasePipeline.__init__ calls _setup_model with the arguments
NewHybrid(h, freeze, arch) ==
    /\ hops > 0
    /\ hyb[h].state = "absent"
    /\ LET m0 == [NoHybridModel EXCEPT
                    !.state = "alive",
                    !.hparams.freeze_embeddings = freeze,
                    !.hparams.metadata_layers_dims = arch.metadata_layers_dims,
                    !.hparams.combined_layers_dims = arch.combined_layers_dims,
                    !.hparams.item_metadata_num_cols = Len(ItemMetadata[1])]
           r == SetupModel(m0, heap, h,
                           [trained_model |-> h, item_metadata |-> Some(ItemMetadata)], h)
       IN  /\ hyb' = [hyb EXCEPT ![h] = r.m]
           /\ heap' = r.heap
           /\ hlast' = [op |-> "new", h |-> h, raised |-> r.raised]
    /\ hops' = hops - 1
    /\ UNCHANGED <<disk, saved>>
    /\ UNCHANGED <<ctor, coldVars>>

\* freeze_embeddings(), lines 307-310
FreezeEmbeddings(h) ==
    /\ hops > 0
    /\ hyb[h].state = "alive"
    /\ heap' = SetEmbeddingsGrad(heap, hyb[h].embeddings, FALSE)
    /\ hlast' = [op |-> "freeze_embeddings", h |-> h, raised |-> "none"]
    /\ hops' = hops - 1
    /\ UNCHANGED <<hyb, disk, saved>>
    /\ UNCHANGED <<ctor, coldVars>>

\* unfreeze_embeddings(), lines 312-315
UnfreezeEmbeddings(h) ==
    /\ hops > 0
    /\ hyb[h].state = "alive"
    /\ heap' = SetEmbeddingsGrad(heap, hyb[h].embeddings, TRUE)
    /\ hlast' = [op |-> "unfreeze_embeddings", h |-> h, raised |-> "none"]
    /\ hops' = hops - 1
    /\ UNCHANGED <<hyb, disk, saved>>
    /\ UNCHANGED <<ctor, coldVars>>

\* trainer.fit(model), run once per model: the optimizer changes a parameter
\* that requires gradients and that forward reads: the first row of the
\* borrowed user table, or the first weight of the first combined layer
HybridFit(h, target) ==
    /\ hops > 0
    /\ hyb[h].state = "alive"
    /\ ~hyb[h].fitted
    /\ \/ /\ target = "embeddings"
          /\ heap[hyb[h].embeddings[1]].requires_grad
          /\ LET id == hyb[h].embeddings[1]
             IN  heap' = [heap EXCEPT ![id].data[1] =
                            [c \in DOMAIN @ |-> Stepped(@[c])]]
          /\ hyb' = [hyb EXCEPT ![h].fitted = TRUE, ![h].training = TRUE]
       \/ /\ target = "combined_layer"
          /\ LET n == hyb[h].combined_layers[1]
             IN  hyb' = [hyb EXCEPT ![h].fitted = TRUE, ![h].training = TRUE,
                                    ![h].layer[n].weight.data[1][1] = Stepped(@)]
          /\ UNCHANGED heap
    /\ hlast' = [op |-> "fit", h |-> h, raised |-> "none"]
    /\ hops' = hops - 1
    /\ UNCHANGED <<disk, saved>>
    /\ UNCHANGED <<ctor, coldVars>>

\* forward(users, items) on every (user, item) pair
CallForward(h) ==
    /\ hyb[h].state = "alive"
    /\ hlast' = [op |-> "forward", h |-> h, raised |-> "none",
                 scores |-> Scores(hyb[h], heap)]
    /\ UNCHANGED <<heap, hyb, disk, saved, hops>>
    /\ UNCHANGED <<ctor, coldVars>>

\* a filter that also drops the model's own embedding tables
KeptOnSaveLayersOnly(e) == e.key[1] \notin {"_trained_model", "embeddings"}

\* line 353: '_trained_model' not in k
KeptOnSave(e) == e.key[1] # "_trained_model"

\* lines 352-358: the state dictionary without the _trained_model component
StateDictToSave(m, hp) == SelectSeq(StateDict(m, hp), KeptOnSave)

\* A save that refuses every existing directory, empty or not, unless told to
\* overwrite.
SaveModelOnUnlessExists(m, hp, d, overwrite) ==
    IF d.exists /\ overwrite = FALSE
    THEN [raised |-> "ValueError", disk |-> d]
    ELSE [raised |-> "none",
          disk |-> [exists |-> TRUE,
                    files |-> [f \in FileNames |->
                        IF f = "metadata.pkl" THEN Some(m.item_metadata[1])
                        ELSE IF f = "model.pth"
                            THEN Some([state_dict |-> StateDictToSave(m, hp),
                                       hparams |-> m.hparams])
                        ELSE d.files[f]]]]

\* save_model(path, overwrite) of model m on directory d, lines 341-361
SaveModelOn(m, hp, d, overwrite) ==
    IF d.exists /\ ListDir(d) # {} /\ overwrite = FALSE
    THEN [raised |-> "ValueError", disk |-> d]
    ELSE [raised |-> "none",
          disk |-> [exists |-> TRUE,
                    files |-> [f \in FileNames |->
                        IF f = "metadata.pkl" THEN Some(m.item_metadata[1])
                        ELSE IF f = "model.pth"
                            THEN Some([state_dict |-> StateDictToSave(m, hp),
                                       hparams |-> m.hparams])
                        ELSE d.files[f]]]]

SaveModel(h, overwrite) ==
    /\ hops > 0
    /\ hyb[h].state = "alive"
    /\ LET r == SaveModelOn(hyb[h], heap, disk, overwrite)
       IN  /\ disk' = r.disk
           /\ saved' = IF r.raised = "none"
                       THEN Some([hparams |-> hyb[h].hparams,
                                  params |-> ForwardParams(hyb[h], heap),
                                  scores |-> Scores(hyb[h], heap)])
                       ELSE saved
           /\ hlast' = [op |-> "save_model", h |-> h, raised |-> r.raised,
                        overwrite |-> overwrite, before |-> disk]
    /\ hops' = hops - 1
    /\ UNCHANGED <<heap, hyb>>
    /\ UNCHANGED <<ctor, coldVars>>

NoKwargs == [trained_model |-> 0, item_metadata |-> None]

\* BasePipeline._load_model_init_helper(load_model_path = file): the saved
\* hyperparameters become the model's, load_model_path records the file,
\* _setup_model rebuilds the structure and the saved parameters are loaded
\* (strictly, as load_state_dict does at line 381).  The mode the restored
\* model is left in is not stated; the mode of a new module is kept.
BaseLoadModelInitHelper(m, hp, h, file, draw) ==
    LET m1 == [m EXCEPT !.hparams = [file.hparams EXCEPT
                                       !.load_model_path = Some("model/model.pth")]]
        s == SetupModel(m1, hp, h, NoKwargs, draw)
        l == LoadStateDict(s.m, s.heap, file.state_dict)
    IN  IF s.raised # "none" THEN s
        ELSE l

\* m = HybridPretrainedModel(load_model_path = 'model'): _load_model_init_helper,
\* lines 182-185.  The name m may be unbound or bound to an earlier model,
\* which the new one replaces; a constructor that raises builds no model and
\* leaves the name as it was.
LoadHybrid(h) ==
    /\ hops > 0
    /\ IF disk.files["metadata.pkl"] = None \/ disk.files["model.pth"] = None
       THEN /\ hlast' = [op |-> "load", h |-> h, raised |-> "FileNotFoundError"]
            /\ UNCHANGED <<heap, hyb>>
       ELSE LET m0 == [NoHybridModel EXCEPT
                          !.state = "alive",
                          !.item_metadata = Some(disk.files["metadata.pkl"][1])]
                r == BaseLoadModelInitHelper(m0, heap, h, disk.files["model.pth"][1], h + 1)
            IN  /\ hlast' = [op |-> "load", h |-> h, raised |-> r.raised]
                /\ IF r.raised = "none"
                   THEN hyb' = [hyb EXCEPT ![h] = r.m] /\ heap' = r.heap
                   ELSE UNCHANGED <<heap, hyb>>
    /\ hops' = hops - 1
    /\ UNCHANGED <<disk, saved>>
    /\ UNCHANGED <<ctor, coldVars>>

\* a.load_from_hybrid_model(b), lines 377-382: eval() is reached only when
\* neither _setup_model nor load_state_dict raised
LoadFromHybridModelOn(ma, mb, hp, a, draw) ==
    LET m1 == [ma EXCEPT !.hparams = mb.hparams]
        s == SetupModel(m1, hp, a, NoKwargs, draw)
        l == LoadStateDict(s.m, s.heap, StateDict(mb, s.heap))
    IN  IF s.raised # "none" THEN s
        ELSE IF l.raised # "none" THEN l
        ELSE [l EXCEPT !.m.training = FALSE]

LoadFromHybridModel(a, b) ==
    /\ hops > 0
    /\ a # b
    /\ hyb[a].state = "alive"
    /\ hyb[b].state = "alive"
    /\ LET r == LoadFromHybridModelOn(hyb[a], hyb[b], heap, a, a + 1)
       IN  /\ hyb' = [hyb EXCEPT ![a] = r.m]
           /\ heap' = r.heap
           /\ hlast' = [op |-> "load_from_hybrid_model", h |-> a, raised |-> r.raised,
                        other |-> b]
    /\ hops' = hops - 1
    /\ UNCHANGED <<disk, saved>>
    /\ UNCHANGED <<ctor, coldVars>>

NextHybrid ==
    \/ \E h \in Hybrids, freeze \in BOOLEAN, arch \in HybridArchs :
          NewHybrid(h, freeze, arch)
    \/ \E h \in Hybrids : hyb[h].state = "absent" /\ LoadHybrid(h)
    \/ \E h \in Hybrids : FreezeEmbeddings(h)
    \/ \E h \in Hybrids : UnfreezeEmbeddings(h)
    \/ \E h \in Hybrids, target \in {"embeddings", "combined_layer"} : HybridFit(h, target)
    \/ \E h \in Hybrids : CallForward(h)
    \/ \E h \in Hybrids, overwrite \in BOOLEAN : SaveModel(h, overwrite)
    \/ \E a \in Hybrids, b \in Hybrids : LoadFromHybridModel(a, b)

SpecHybrid == InitHybrid /\ [][NextHybrid]_vars

(***************************************************************************)
(* Saving and loading: models are built, copied into one another, trained, *)
(* saved over whatever the directory holds and loaded from it, into a new  *)
(* name or into the name of an earlier model.                              *)
(***************************************************************************)
InitRoundTrip ==
    /\ ctor = NoCall
    /\ NoModel
    /\ heap = [id \in TensorIds |->
                 IF id = SourceUserId(1) THEN SourceUserTable(1)
                 ELSE IF id = SourceItemId(1) THEN SourceItemTable(1)
                 ELSE IF id = SourceUserId(2) THEN SourceUserTable(2)
                 ELSE IF id = SourceItemId(2) THEN SourceItemTable(2)
                 ELSE Param(<<>>, TRUE)]
    /\ hyb = [h \in Hybrids |-> NoHybridModel]
    /\ disk = NoDirectory
    /\ saved = None
    /\ hlast = [op |-> "none"]
    /\ hops = MaxRoundTripOps

NextRoundTrip ==
    \/ \E h \in Hybrids, freeze \in BOOLEAN, arch \in HybridArchs :
          NewHybrid(h, freeze, arch)
    \/ \E a \in Hybrids, b \in Hybrids : LoadFromHybridModel(a, b)
    \/ \E h \in Hybrids, target \in {"embeddings", "combined_layer"} : HybridFit(h, target)
    \/ \E h \in Hybrids : SaveModel(h, TRUE)
    \/ \E h \in Hybrids : LoadHybrid(h)

SpecRoundTrip == InitRoundTrip /\ [][NextRoundTrip]_vars

\* C4: the parameters of every trained model passed to a hybrid model stay
\* what they were when the hybrid model was built, whatever is done with the
\* hybrid models.
C4_SourceNeverChanges ==
    \A k \in Sources :
        /\ heap[SourceUserId(k)] = SourceUserTable(k)
        /\ heap[SourceItemId(k)] = SourceItemTable(k)

\* the model the last call was made on
LastModel == hyb[hlast.h]

\* the last call was a load from the directory that built a model
JustLoaded == hlast.op = "load" /\ hlast.raised = "none"

\* the hyperparameters that describe the model, not where it was loaded from
ModelHparams(hp) == [hp EXCEPT !.load_model_path = None]

\* the loaded model has the metadata, the parameters forward reads and the
\* scores of the model that was saved
SameForwardAsSaved ==
    /\ ForwardParams(LastModel, heap) = saved[1].params
    /\ Scores(LastModel, heap) = saved[1].scores

\* the last call was a load from a directory that save_model has written
LoadedAfterSave == hlast.op = "load" /\ saved # None

\* C6: once save_model has written a model to the directory, loading from the
\* directory builds a model whose hyperparameters (other than load_model_path,
\* which records where a model was loaded from), item metadata and every
\* parameter forward reads equal the saved model's, so that forward gives the
\* same scores on both for every (user, item).
C6_RoundTrip ==
    LoadedAfterSave =>
        /\ hlast.raised = "none"
        /\ ModelHparams(LastModel.hparams) = ModelHparams(saved[1].hparams)
        /\ SameForwardAsSaved

\* the directory had a file in it before the last save_model
HadFiles == hlast.before.exists /\ ListDir(hlast.before) # {}

\* the directory holds the metadata blob and the model-state file of model m
HoldsModel(d, m, hp) ==
    /\ d.exists
    /\ d.files["metadata.pkl"] = Some(m.item_metadata[1])
    /\ d.files["model.pth"] # None
    /\ d.files["model.pth"][1].hparams = m.hparams
    /\ LET sd == d.files["model.pth"][1].state_dict
       IN  /\ ValueAt(sd, <<"embeddings", "0.weight">>) = hp[m.embeddings[1]].data
           /\ ValueAt(sd, <<"embeddings", "1.weight">>) = hp[m.embeddings[2]].data
           /\ \A i \in DOMAIN m.combined_layers :
                LET n == m.combined_layers[i]
                IN  /\ ValueAt(sd, <<n, "weight">>) = m.layer[n].weight.data
                    /\ ValueAt(sd, <<n, "bias">>) = m.layer[n].bias.data

\* C7: save_model on a directory that exists and has a file in it, without
\* overwrite, raises and leaves the directory as it was; with overwrite, or on
\* a missing or empty directory, it succeeds and the directory then holds the
\* metadata blob and the model-state file of the model saved.
C7_SaveModelOverwrite ==
    hlast.op = "save_model" =>
        IF HadFiles /\ ~hlast.overwrite
        THEN hlast.raised = "ValueError" /\ disk = hlast.before
        ELSE hlast.raised = "none" /\ HoldsModel(disk, LastModel, heap)

\* save_model refused a directory that an earlier save_model had written
C7_Witness ==
    /\ hlast.op = "save_model"
    /\ hlast.raised = "ValueError"
    /\ "model.pth" \in ListDir(hlast.before)
    /\ disk = hlast.before
\* the step is a call of freeze_embeddings or unfreeze_embeddings
FreezeOrUnfreezeStep ==
    /\ hops' = hops - 1
    /\ hlast'.op \in {"freeze_embeddings", "unfreeze_embeddings"}

\* C12: freeze_embeddings leaves requires_grad false on both embedding tables
\* of the model and unfreeze_embeddings leaves it true on both, whatever the
\* flags were; neither changes the data of any tensor, the flag of any other
\* tensor, or anything of the model's layers.
C12_FreezeSetsBothFlags ==
    [][FreezeOrUnfreezeStep =>
         LET emb == hyb[hlast'.h].embeddings
             flag == hlast'.op = "unfreeze_embeddings"
         IN  /\ heap'[emb[1]].requires_grad = flag
             /\ heap'[emb[2]].requires_grad = flag
             /\ \A id \in TensorIds :
                  /\ heap'[id].data = heap[id].data
                  /\ id \notin {emb[1], emb[2]} =>
                        heap'[id].requires_grad = heap[id].requires_grad
             /\ hyb' = hyb]_vars

\* a model with metadata layers that was built frozen has been unfrozen while
\* another model stays frozen
C12_Witness ==
    /\ hlast.op = "unfreeze_embeddings"
    /\ LastModel.hparams.freeze_embeddings
    /\ LastModel.metadata_layers # None
    /\ heap[LastModel.embeddings[1]].requires_grad
    /\ heap[LastModel.embeddings[2]].requires_grad
    /\ \E h \in Hybrids :
         /\ hyb[h].state = "alive"
         /\ ~heap[hyb[h].embeddings[1]].requires_grad

\* the last call was a.load_from_hybrid_model(b)
JustCopied == hlast.op = "load_from_hybrid_model"

\* C13: after a.load_from_hybrid_model(b) the call has not raised, every
\* hyperparameter of a equals b's, the embedding tables, metadata layers and
\* combined layers of a equal b's, and a is in evaluation mode.
C13_CopiesEverything ==
    JustCopied =>
        LET a == hyb[hlast.h]
            b == hyb[hlast.other]
        IN  /\ hlast.raised = "none"
            /\ a.hparams = b.hparams
            /\ ForwardParams(a, heap) = ForwardParams(b, heap)
            /\ ~a.training

\* the position of key k in state dictionary sd
IndexOf(sd, k) == CHOOSE i \in DOMAIN sd : sd[i].key = k

\* the mapping in the model-state file of the directory
SavedStateDict == disk.files["model.pth"][1].state_dict

\* C14: the mapping save_model writes has no entry of the trained model, has
\* every other entry of the model's state dictionary with the same value, and
\* keeps the state dictionary's order.
C14_SavedMappingExcludesSource ==
    (hlast.op = "save_model" /\ hlast.raised = "none") =>
        LET full == StateDict(LastModel, heap)
        IN  /\ \A k \in Keys(SavedStateDict) : k[1] # "_trained_model"
            /\ Keys(SavedStateDict) = {k \in Keys(full) : k[1] # "_trained_model"}
            /\ Len(SavedStateDict) = Cardinality(Keys(SavedStateDict))
            /\ \A i \in DOMAIN SavedStateDict :
                 SavedStateDict[i].value = ValueAt(full, SavedStateDict[i].key)
            /\ \A i, j \in DOMAIN SavedStateDict :
                 i < j => IndexOf(full, SavedStateDict[i].key)
                            < IndexOf(full, SavedStateDict[j].key)

\* a model that holds a trained model and has metadata layers was saved after
\* its embedding tables were trained away from the trained model's
C14_Witness ==
    /\ hlast.op = "save_model"
    /\ hlast.raised = "none"
    /\ <<"_trained_model", "user_embeddings.weight">> \in Keys(StateDict(LastModel, heap))
    /\ LastModel.metadata_layers # None
    /\ heap[LastModel.embeddings[1]].data # heap[SourceUserId(LastModel.trained_model)].data

\* C16: a model loaded from the directory requires gradients on both of its
\* embedding tables, whatever freeze_embeddings the saved hyperparameters
\* record and whatever the flags of the saved model were.
C16_LoadedTablesAreTrainable ==
    JustLoaded =>
        /\ heap[LastModel.embeddings[1]].requires_grad
        /\ heap[LastModel.embeddings[2]].requires_grad

\* the loaded model's hyperparameters say freeze_embeddings, and the model it
\* was saved from is still frozen
C16_Witness ==
    /\ JustLoaded
    /\ LastModel.hparams.freeze_embeddings
    /\ \E h \in Hybrids :
         /\ hyb[h].state = "alive"
         /\ hyb[h].trained_model # 0
         /\ ~heap[hyb[h].embeddings[1]].requires_grad
         /\ ~heap[hyb[h].embeddings[2]].requires_grad

=============================================================================
